---- MODULE Spec2Model ----
(***************************************************************************)
(* Model of the blog crate (src/src/lib.rs): the dynamic-state Post of     *)
(* module oop, whose behaviour is delegated to a boxed State object        *)
(* (Draft, PendingReview, Published), and the typestate posts of module    *)
(* rust_way, one struct per stage.                                         *)
(*                                                                         *)
(* Strings are sequences of characters drawn from 1..NumChars; string      *)
(* concatenation (format!("{}{}", a, b)) is \o.                            *)
(***************************************************************************)
EXTENDS Integers, Sequences, FiniteSets, TLC

(* ---- bounds ---------------------------------------------------------- *)
NumChars == 2
MaxLen == 2
HistLen == 4

(* ---- program constants ------------------------------------------------ *)
U8Mod == 256

VARIABLES state, content, panicked, history, progress, qualified, leftDraftWith,
          issued, rw, rwHistory

oopVars == <<state, content, panicked, history, progress, qualified, leftDraftWith, issued>>

rwVars == <<rw, rwHistory>>

vars == <<state, content, panicked, history, progress, qualified, leftDraftWith,
          issued, rw, rwHistory>>

(* ---- inputs ----------------------------------------------------------- *)
\* the texts passed to add_text: the empty text and the one-character texts
Texts == {<<>>} \cup {<<c>> : c \in 1..NumChars}

EmptyString == <<>>

(* ---- the State objects ------------------------------------------------ *)
None == [tag |-> "None"]

Draft == [tag |-> "Draft"]

PendingReview(n) == [tag |-> "PendingReview", approvals |-> n]

Published == [tag |-> "Published"]

(* trait State: default method bodies *)
\* variant: the default policy hands out the stored content
State_content_leaky(self, post) == post.content

State_content(self, post) == EmptyString

\* variant: the default policy appends as Draft does
State_add_text_appends(self, current_content, text_to_append) ==
    current_content \o text_to_append

State_add_text(self, current_content, text_to_append) == current_content

(* impl State for Draft *)
\* variant: the counter of a new PendingReview starts at one
Draft_request_review_from_one(self) == PendingReview(1)

Draft_request_review(self) == PendingReview(0)

\* variant: approving a draft sends it to review with the approval counted
Draft_approve_counts(self) == PendingReview(1)

Draft_approve(self) == self

Draft_reject(self) == self

\* variant: the arguments of format! are swapped, the new text goes in front
Draft_add_text_prepends(self, current_content, text_to_append) ==
    text_to_append \o current_content

Draft_add_text(self, current_content, text_to_append) ==
    current_content \o text_to_append

(* impl State for PendingReview *)
\* variant: asking again for a review starts a new PendingReview
PendingReview_request_review_resets(self) == PendingReview(0)

PendingReview_request_review(self) == self

\* *self.approvals.borrow_mut() += 1 on a u8: TRUE when the addition overflows
PendingReview_overflows(self) == self.approvals + 1 >= U8Mod

\* variant: the threshold is one too high, a third approval is needed
PendingReview_approve_thrice(self) ==
    LET n == (self.approvals + 1) % U8Mod
    IN  IF n > 2 THEN Published ELSE [self EXCEPT !.approvals = n]

\* variant: the threshold is off by one, a single approval publishes
PendingReview_approve_once(self) ==
    LET n == (self.approvals + 1) % U8Mod
    IN  IF n > 0 THEN Published ELSE [self EXCEPT !.approvals = n]

PendingReview_approve(self) ==
    LET n == (self.approvals + 1) % U8Mod
    IN  IF n > 1 THEN Published ELSE [self EXCEPT !.approvals = n]

\* variant: reject is a self-transition, as in the other stages
PendingReview_reject_stays(self) == self

PendingReview_reject(self) == Draft

(* impl State for Published *)
Published_request_review(self) == self

Published_approve(self) == self

Published_content(self, post) == post.content

\* variant: reject returns to Draft, as it does in PendingReview
Published_reject_to_draft(self) == Draft

Published_reject(self) == self

(* dynamic dispatch through Box<dyn State> *)
Dyn_request_review(s) ==
    CASE s.tag = "Draft" -> Draft_request_review(s)
      [] s.tag = "PendingReview" -> PendingReview_request_review(s)
      [] s.tag = "Published" -> Published_request_review(s)

\* variant: the incremented counter is not retained by PendingReview
Dyn_approve_forgets(s) ==
    CASE s.tag = "Draft" -> Draft_approve(s)
      [] s.tag = "PendingReview" ->
            IF PendingReview_approve(s) = Published THEN Published ELSE s
      [] s.tag = "Published" -> Published_approve(s)

Dyn_approve(s) ==
    CASE s.tag = "Draft" -> Draft_approve(s)
      [] s.tag = "PendingReview" -> PendingReview_approve(s)
      [] s.tag = "Published" -> Published_approve(s)

Dyn_reject(s) ==
    CASE s.tag = "Draft" -> Draft_reject(s)
      [] s.tag = "PendingReview" -> PendingReview_reject(s)
      [] s.tag = "Published" -> Published_reject(s)

Dyn_content(s, post) ==
    CASE s.tag = "Draft" -> State_content(s, post)
      [] s.tag = "PendingReview" -> State_content(s, post)
      [] s.tag = "Published" -> Published_content(s, post)

\* variant: PendingReview is given the Draft policy for add_text
Dyn_add_text_in_review(s, current_content, text_to_append) ==
    CASE s.tag = "Draft" -> Draft_add_text(s, current_content, text_to_append)
      [] s.tag = "PendingReview" -> Draft_add_text(s, current_content, text_to_append)
      [] s.tag = "Published" -> State_add_text(s, current_content, text_to_append)

Dyn_add_text(s, current_content, text_to_append) ==
    CASE s.tag = "Draft" -> Draft_add_text(s, current_content, text_to_append)
      [] s.tag = "PendingReview" -> State_add_text(s, current_content, text_to_append)
      [] s.tag = "Published" -> State_add_text(s, current_content, text_to_append)

(* ---- the Post ---------------------------------------------------------- *)
ThePost == [state |-> state, content |-> content]

\* Post::content (a read; defined when the state handle is present)
Post_content(post) == Dyn_content(post.state, post)

(* ---- observers of the call sequence ------------------------------------ *)
\* history: the last HistLen calls, each with the Post as it was before the call
Entry(op, text) == [op |-> op, text |-> text, state |-> state, content |-> content]

Record(op, text) ==
    LET h == Append(history, Entry(op, text))
    IN  IF Len(h) > HistLen THEN Tail(h) ELSE h

\* leftDraftWith: the stored content at the moment the Post last left Draft
\* issued: the add_text arguments given while the stage was Draft, in call order
\* progress counts, from the call names alone, how far the calls since the last
\* reject() have got through request_review(), approve(), approve()
Advance(op) ==
    CASE op = "reject" -> 0
      [] op = "request_review" -> IF progress = 0 THEN 1 ELSE progress
      [] op = "approve" -> IF progress \in {1, 2} THEN progress + 1 ELSE progress
      [] OTHER -> progress

Observe(op, text) ==
    /\ history' = Record(op, text)
    /\ progress' = Advance(op)
    /\ qualified' = (qualified \/ Advance(op) = 3)
    /\ leftDraftWith' = IF state = Draft /\ state' # Draft THEN content ELSE leftDraftWith
    /\ issued' = IF op = "add_text" /\ state = Draft THEN issued \o text ELSE issued

Panic ==
    /\ panicked' = TRUE
    /\ UNCHANGED content

(* ---- module rust_way: one struct per stage -------------------------------- *)
DraftPost(c) == [type |-> "DraftPost", content |-> c]

PendingReviewPost(c) == [type |-> "PendingReviewPost", content |-> c]

ApprovedPendingReviewPost(c) == [type |-> "ApprovedPendingReviewPost", content |-> c]

RW_Post(c) == [type |-> "Post", content |-> c]

\* rust_way::Post::new
RW_Post_new == DraftPost(EmptyString)

\* rust_way::Post::content
RW_Post_content(self) == self.content

\* variant: the text is inserted at the front of the content
DraftPost_add_text_prepends(self, text) == DraftPost(text \o self.content)

\* self.content.push_str(text)
DraftPost_add_text(self, text) == DraftPost(self.content \o text)

DraftPost_request_review(self) == PendingReviewPost(self.content)

\* variant: the first approval already builds the published Post
PendingReviewPost_approve_publishes(self) == RW_Post(self.content)

PendingReviewPost_approve(self) == ApprovedPendingReviewPost(self.content)

PendingReviewPost_reject(self) == DraftPost(self.content)

ApprovedPendingReviewPost_approve(self) == RW_Post(self.content)

\* variant: the rejected draft starts from String::new()
ApprovedPendingReviewPost_reject_clears(self) == DraftPost(EmptyString)

ApprovedPendingReviewPost_reject(self) == DraftPost(self.content)

\* rwHistory: the last HistLen calls, each with the value it was made on
RW_Entry(op, text) == [op |-> op, text |-> text, self |-> rw]

RW_Record(op, text) ==
    LET h == Append(rwHistory, RW_Entry(op, text))
    IN  IF Len(h) > HistLen THEN Tail(h) ELSE h

\* a call of a method on the value held: the method exists on one struct only
RW_add_text(text) ==
    /\ rw.type = "DraftPost"
    /\ Len(rw.content) + Len(text) <= MaxLen
    /\ rw' = DraftPost_add_text(rw, text)
    /\ rwHistory' = RW_Record("add_text", text)

RW_request_review ==
    /\ rw.type = "DraftPost"
    /\ rw' = DraftPost_request_review(rw)
    /\ rwHistory' = RW_Record("request_review", EmptyString)

RW_PendingReview_approve ==
    /\ rw.type = "PendingReviewPost"
    /\ rw' = PendingReviewPost_approve(rw)
    /\ rwHistory' = RW_Record("approve", EmptyString)

RW_PendingReview_reject ==
    /\ rw.type = "PendingReviewPost"
    /\ rw' = PendingReviewPost_reject(rw)
    /\ rwHistory' = RW_Record("reject", EmptyString)

RW_Approved_approve ==
    /\ rw.type = "ApprovedPendingReviewPost"
    /\ rw' = ApprovedPendingReviewPost_approve(rw)
    /\ rwHistory' = RW_Record("approve", EmptyString)

RW_Approved_reject ==
    /\ rw.type = "ApprovedPendingReviewPost"
    /\ rw' = ApprovedPendingReviewPost_reject(rw)
    /\ rwHistory' = RW_Record("reject", EmptyString)

\* variant: content() is offered by every struct
RW_content_any ==
    /\ rw' = rw
    /\ rwHistory' = RW_Record("content", RW_Post_content(rw))

\* post.content() borrows the value and leaves it as it is
RW_content ==
    /\ rw.type = "Post"
    /\ rw' = rw
    /\ rwHistory' = RW_Record("content", RW_Post_content(rw))

(* ---- operations --------------------------------------------------------- *)
Init ==
    /\ state = Draft
    /\ content = EmptyString
    /\ panicked = FALSE
    /\ history = <<>>
    /\ progress = 0
    /\ qualified = FALSE
    /\ leftDraftWith = EmptyString
    /\ issued = EmptyString
    /\ rw = RW_Post_new
    /\ rwHistory = <<>>

Post_add_text(text) ==
    /\ ~panicked
    /\ Len(content) + Len(text) <= MaxLen
    /\ IF state = None
       THEN Panic /\ UNCHANGED state
       ELSE /\ content' = Dyn_add_text(state, content, text)
            /\ UNCHANGED <<state, panicked>>
    /\ Observe("add_text", text)

Post_request_review ==
    /\ ~panicked
    /\ state' = IF state # None THEN Dyn_request_review(state) ELSE state
    /\ UNCHANGED <<content, panicked>>
    /\ Observe("request_review", EmptyString)

Post_approve ==
    /\ ~panicked
    /\ IF state # None /\ state.tag = "PendingReview" /\ PendingReview_overflows(state)
       THEN \/ Panic /\ state' = None
            \/ state' = Dyn_approve(state) /\ UNCHANGED <<content, panicked>>
       ELSE /\ state' = IF state # None THEN Dyn_approve(state) ELSE state
            /\ UNCHANGED <<content, panicked>>
    /\ Observe("approve", EmptyString)

\* variant: the state taken out of the Post is not put back
Post_reject_takes ==
    /\ ~panicked
    /\ state' = None
    /\ UNCHANGED <<content, panicked>>
    /\ Observe("reject", EmptyString)

Post_reject ==
    /\ ~panicked
    /\ state' = IF state # None THEN Dyn_reject(state) ELSE state
    /\ UNCHANGED <<content, panicked>>
    /\ Observe("reject", EmptyString)

\* the dynamic-state Post alone
Next ==
    \/ (\E text \in Texts : Post_add_text(text)) /\ UNCHANGED rwVars
    \/ Post_request_review /\ UNCHANGED rwVars
    \/ Post_approve /\ UNCHANGED rwVars
    \/ Post_reject /\ UNCHANGED rwVars

Spec == Init /\ [][Next]_vars

\* the typestate posts alone
NextTypestate ==
    \/ (\E text \in Texts : RW_add_text(text)) /\ UNCHANGED oopVars
    \/ RW_request_review /\ UNCHANGED oopVars
    \/ RW_PendingReview_approve /\ UNCHANGED oopVars
    \/ RW_PendingReview_reject /\ UNCHANGED oopVars
    \/ RW_Approved_approve /\ UNCHANGED oopVars
    \/ RW_Approved_reject /\ UNCHANGED oopVars
    \/ RW_content /\ UNCHANGED oopVars

SpecTypestate == Init /\ [][NextTypestate]_vars

\* the same calls made on both: every call the typestate value admits is also
\* made on the dynamic-state Post
NextBoth ==
    \/ \E text \in Texts : RW_add_text(text) /\ Post_add_text(text)
    \/ RW_request_review /\ Post_request_review
    \/ RW_PendingReview_approve /\ Post_approve
    \/ RW_PendingReview_reject /\ Post_reject
    \/ RW_Approved_approve /\ Post_approve
    \/ RW_Approved_reject /\ Post_reject
    \/ RW_content /\ UNCHANGED oopVars

SpecBoth == Init /\ [][NextBoth]_vars

(* ---- reading the history ------------------------------------------------ *)
HasLast == Len(history) >= 1

\* the k-th most recent call (k = 0 is the call that has just returned)
Ago(k) == history[Len(history) - k]

\* the most recent calls, oldest first, are exactly ops
Ends(ops) ==
    /\ Len(history) >= Len(ops)
    /\ \A i \in 1..Len(ops) : history[Len(history) - Len(ops) + i].op = ops[i]

InPendingReview(s) == s # None /\ s.tag = "PendingReview"

RW_HasLast == Len(rwHistory) >= 1

RW_Ago(k) == rwHistory[Len(rwHistory) - k]

RW_Ends(ops) ==
    /\ Len(rwHistory) >= Len(ops)
    /\ \A i \in 1..Len(ops) : rwHistory[Len(rwHistory) - Len(ops) + i].op = ops[i]

IsPrefix(a, b) == Len(a) <= Len(b) /\ SubSeq(b, 1, Len(a)) = a

Visible == Post_content(ThePost)

(* ---- claims --------------------------------------------------------------- *)

\* C1: after any sequence of calls on a new Post, content() returns the empty
\* string whenever the stage is not Published, and returns the stored content
\* exactly whenever the stage is Published.
C1_ContentOnlyWhenPublished ==
    state # None =>
        /\ state.tag # "Published" => Visible = EmptyString
        /\ state.tag = "Published" => Visible = content

\* a Published post with non-empty stored content, read through content()
C1_Witness ==
    /\ state = Published
    /\ content # EmptyString
    /\ Visible = content

\* C2: content() is non-empty only after two approve() calls have followed a
\* request_review() with no reject() in between; the approve() that takes
\* PendingReview from no approval to one approval leaves content() empty.
C2_TwoApprovalsNeeded ==
    state # None =>
        /\ Visible # EmptyString => qualified
        /\ (HasLast /\ Ago(0).op = "approve" /\ Ago(0).state = PendingReview(0))
              => Visible = EmptyString

\* the second of two approvals in PendingReview has just made the text visible
C2_Witness ==
    /\ Ends(<<"request_review", "approve", "approve">>)
    /\ Ago(2).state = Draft
    /\ Ago(1).state = PendingReview(0)
    /\ Ago(0).state = PendingReview(1)
    /\ Ago(0).content # EmptyString
    /\ Visible # EmptyString
    /\ qualified

\* C3: add_text(text) appends text to the stored content only when the stage is
\* Draft; in PendingReview (any approval count) and in Published it leaves the
\* stored content, the stage and the approval count unchanged and does not fail.
C3_AddTextOnlyInDraft ==
    (HasLast /\ Ago(0).op = "add_text") =>
        /\ ~panicked
        /\ state = Ago(0).state
        /\ content = IF Ago(0).state = Draft
                     THEN Ago(0).content \o Ago(0).text
                     ELSE Ago(0).content

\* add_text of a non-empty text has just returned in PendingReview with one approval
C3_Witness ==
    /\ HasLast
    /\ Ago(0).op = "add_text"
    /\ Ago(0).text # EmptyString
    /\ Ago(0).state = PendingReview(1)
    /\ Ago(0).content # EmptyString
    /\ content = Ago(0).content

\* C4: add_text calls issued after the document has left Draft have no effect
\* on the published content: a Published post stores exactly the content it had
\* when it last left Draft.
C4_LateTextNotPublished ==
    state = Published => content = leftDraftWith

\* a Published post whose recent calls include a non-empty add_text issued
\* while under review
C4_Witness ==
    /\ state = Published
    /\ content # EmptyString
    /\ \E i \in 1..Len(history) :
          /\ history[i].op = "add_text"
          /\ history[i].text # EmptyString
          /\ InPendingReview(history[i].state)

\* C5: reject() called in PendingReview at any approval count moves the
\* document to Draft and leaves the stored content unchanged, and an add_text
\* that follows it appends again.
C5_RejectReturnsToDraft ==
    /\ (HasLast /\ Ago(0).op = "reject" /\ InPendingReview(Ago(0).state))
          => (state = Draft /\ content = Ago(0).content)
    /\ (Ends(<<"reject", "add_text">>) /\ InPendingReview(Ago(1).state))
          => content = Ago(1).content \o Ago(0).text

\* reject() at one approval, then an add_text of a non-empty text
C5_Witness ==
    /\ Ends(<<"reject", "add_text">>)
    /\ Ago(1).state = PendingReview(1)
    /\ Ago(1).content # EmptyString
    /\ Ago(0).text # EmptyString
    /\ content = Ago(1).content \o Ago(0).text

\* C6: reject() resets approval progress: every entry into PendingReview starts
\* with approval count 0, so after approve(); reject(); request_review() in
\* review a single approve() does not publish, and request_review(); approve();
\* approve() after a reject in review reaches Published with the content as it
\* was at the reject.
C6_RejectResetsApprovals ==
    /\ (HasLast /\ Ago(0).op = "request_review" /\ Ago(0).state = Draft)
          => state = PendingReview(0)
    /\ (Ends(<<"approve", "reject", "request_review", "approve">>)
          /\ Ago(3).state = PendingReview(0))
          => (state = PendingReview(1) /\ content = Ago(3).content)
    /\ (Ends(<<"reject", "request_review", "approve", "approve">>)
          /\ InPendingReview(Ago(3).state))
          => (state = Published /\ content = Ago(3).content)

\* one approval, a reject, a new review and one approval: still under review
C6_Witness ==
    /\ Ends(<<"approve", "reject", "request_review", "approve">>)
    /\ Ago(3).state = PendingReview(0)
    /\ Ago(3).content # EmptyString
    /\ Ago(2).state = PendingReview(1)
    /\ Ago(1).state = Draft
    /\ state = PendingReview(1)
    /\ Visible = EmptyString

\* C7: approve() in PendingReview increments the approval counter by one; if
\* the counter is then greater than 1 the stage becomes Published, otherwise
\* the stage stays PendingReview with the incremented counter; the stored
\* content is unchanged in both cases.
C7_ApproveCounts ==
    (HasLast /\ Ago(0).op = "approve" /\ InPendingReview(Ago(0).state)) =>
        /\ content = Ago(0).content
        /\ state = IF Ago(0).state.approvals + 1 > 1
                   THEN Published
                   ELSE PendingReview(Ago(0).state.approvals + 1)

\* the first approval has just been counted on a post with content
C7_Witness ==
    /\ HasLast
    /\ Ago(0).op = "approve"
    /\ Ago(0).state = PendingReview(0)
    /\ Ago(0).content # EmptyString
    /\ state = PendingReview(1)

\* C8: request_review() moves Draft to PendingReview with approval count 0 and
\* is a no-op in every other stage: PendingReview keeps its approval count
\* (count 1 is not reset) and Published stays Published; the stored content is
\* never changed by it.
C8_RequestReview ==
    (HasLast /\ Ago(0).op = "request_review") =>
        /\ content = Ago(0).content
        /\ state = IF Ago(0).state = Draft THEN PendingReview(0) ELSE Ago(0).state

\* request_review() has just returned in PendingReview with one approval
C8_Witness ==
    /\ HasLast
    /\ Ago(0).op = "request_review"
    /\ Ago(0).state = PendingReview(1)
    /\ state = PendingReview(1)

\* C9: Published is absorbing: once the stage is Published every operation
\* leaves the stage Published and the stored content unchanged, so content()
\* returns the same text from then on.
C9_PublishedAbsorbing ==
    [][state = Published =>
          /\ state' = Published
          /\ content' = content
          /\ Visible' = Visible]_vars

\* each of the four operations has been called on a Published post with content
C9_Witness ==
    /\ state = Published
    /\ content # EmptyString
    /\ Len(history) = 4
    /\ \A i \in 1..4 : history[i].state = Published
    /\ {history[i].op : i \in 1..4} = {"add_text", "request_review", "approve", "reject"}
    /\ \E i \in 1..4 : history[i].op = "add_text" /\ history[i].text # EmptyString

\* C10: approve() and reject() called in Draft are no-op self-transitions: the
\* stage stays Draft and the stored content is unchanged, and an approve() made
\* in Draft does not count toward the two approvals needed after a later
\* request_review().
C10_DraftIgnoresVerdicts ==
    /\ (HasLast /\ Ago(0).op \in {"approve", "reject"} /\ Ago(0).state = Draft)
          => (state = Draft /\ content = Ago(0).content)
    /\ (Ends(<<"approve", "request_review", "approve">>) /\ Ago(2).state = Draft)
          => (state = PendingReview(1) /\ Visible = EmptyString)

\* an approve() in Draft, then a review request and one approval: not published
C10_Witness ==
    /\ Ends(<<"approve", "request_review", "approve">>)
    /\ Ago(2).state = Draft
    /\ Ago(2).content # EmptyString
    /\ Ago(1).state = Draft
    /\ state = PendingReview(1)

\* C11: for every call sequence the typestate value admits, the same calls on
\* the dynamic-state Post keep the two in corresponding stages (DraftPost with
\* Draft, PendingReviewPost with PendingReview at count 0,
\* ApprovedPendingReviewPost with PendingReview at count 1, rust_way::Post with
\* Published) with the same stored content, and content() of the published
\* results is equal.
C11_VariantsCorrespond ==
    /\ ~panicked
    /\ state = CASE rw.type = "DraftPost" -> Draft
                 [] rw.type = "PendingReviewPost" -> PendingReview(0)
                 [] rw.type = "ApprovedPendingReviewPost" -> PendingReview(1)
                 [] rw.type = "Post" -> Published
    /\ rw.content = content
    /\ rw.type = "Post" => RW_Post_content(rw) = Visible

\* both variants published the same non-empty text after a reject at one approval
C11_Witness ==
    /\ rw.type = "Post"
    /\ state = Published
    /\ RW_Post_content(rw) # EmptyString
    /\ RW_Post_content(rw) = Visible
    /\ Ends(<<"reject", "request_review", "approve", "approve">>)
    /\ Ago(3).state = PendingReview(1)
    /\ RW_Ends(<<"reject", "request_review", "approve", "approve">>)
    /\ RW_Ago(3).self.type = "ApprovedPendingReviewPost"

\* C12: every typestate transition produces the next-stage value with exactly
\* the content of the value it consumed; only DraftPost::add_text changes the
\* content.
C12_TransitionsKeepContent ==
    RW_HasLast =>
        LET e == RW_Ago(0)
        IN  /\ e.op = "request_review" => rw = PendingReviewPost(e.self.content)
            /\ (e.op = "approve" /\ e.self.type = "PendingReviewPost")
                  => rw = ApprovedPendingReviewPost(e.self.content)
            /\ (e.op = "approve" /\ e.self.type = "ApprovedPendingReviewPost")
                  => rw = RW_Post(e.self.content)
            /\ e.op = "reject" => rw = DraftPost(e.self.content)
            /\ rw.content # e.self.content => e.op = "add_text"

\* a reject at the approved-once stage has just handed back a non-empty draft
C12_Witness ==
    /\ RW_HasLast
    /\ RW_Ago(0).op = "reject"
    /\ RW_Ago(0).self.type = "ApprovedPendingReviewPost"
    /\ RW_Ago(0).self.content # EmptyString
    /\ rw = DraftPost(RW_Ago(0).self.content)

\* C13: the approved-once stage's approve() is the only route to Published: a
\* value that has just become Published was produced by
\* ApprovedPendingReviewPost::approve, directly after PendingReviewPost::approve,
\* directly after DraftPost::request_review; a reject at either review stage
\* gives a DraftPost, from which the whole sequence is needed again.
C13_OnlyRouteToPublished ==
    /\ (rw.type = "Post" /\ (RW_HasLast => RW_Ago(0).op # "content")) =>
          /\ RW_Ends(<<"request_review", "approve", "approve">>)
          /\ RW_Ago(2).self.type = "DraftPost"
          /\ RW_Ago(1).self.type = "PendingReviewPost"
          /\ RW_Ago(0).self.type = "ApprovedPendingReviewPost"
    /\ (RW_HasLast /\ RW_Ago(0).op = "reject") => rw.type = "DraftPost"

\* published by the full sequence made again after a reject at the first review stage
C13_Witness ==
    /\ rw.type = "Post"
    /\ RW_Ends(<<"reject", "request_review", "approve", "approve">>)
    /\ RW_Ago(3).self.type = "PendingReviewPost"

\* C14: the operations available in each stage are exactly: DraftPost: add_text
\* and request_review; PendingReviewPost and ApprovedPendingReviewPost: approve
\* and reject; Post: content only. So content() is never read before Published,
\* add_text is never applied outside Draft, and nothing leaves Published.
C14_OperationsPerStage ==
    /\ \A i \in 1..Len(rwHistory) :
          LET e == rwHistory[i]
          IN  e.op \in CASE e.self.type = "DraftPost" -> {"add_text", "request_review"}
                         [] e.self.type = "PendingReviewPost" -> {"approve", "reject"}
                         [] e.self.type = "ApprovedPendingReviewPost" -> {"approve", "reject"}
                         [] e.self.type = "Post" -> {"content"}
    /\ rw.type = "DraftPost" =>
          /\ ENABLED RW_request_review
          /\ \A text \in Texts :
                Len(rw.content) + Len(text) <= MaxLen => ENABLED RW_add_text(text)
    /\ rw.type = "PendingReviewPost" =>
          /\ ENABLED RW_PendingReview_approve
          /\ ENABLED RW_PendingReview_reject
    /\ rw.type = "ApprovedPendingReviewPost" =>
          /\ ENABLED RW_Approved_approve
          /\ ENABLED RW_Approved_reject
    /\ rw.type = "Post" => ENABLED RW_content
    /\ (RW_HasLast /\ RW_Ago(0).self.type = "Post") => rw = RW_Ago(0).self

\* content() has been read twice on a Published value with non-empty content
C14_Witness ==
    /\ rw.type = "Post"
    /\ RW_Ends(<<"approve", "content", "content">>)
    /\ RW_Ago(0).text # EmptyString
    /\ RW_Ago(0).text = rw.content

\* C15: add_text calls made in Draft accumulate by plain concatenation in call
\* order: after add_text(a) then add_text(b) the content is the content before,
\* then a, then b, in the typestate DraftPost and in the dynamic-state Draft.
C15_ConcatenationInCallOrder ==
    /\ RW_Ends(<<"add_text", "add_text">>) =>
          rw.content = (RW_Ago(1).self.content \o RW_Ago(1).text) \o RW_Ago(0).text
    /\ (Ends(<<"add_text", "add_text">>) /\ Ago(1).state = Draft /\ Ago(0).state = Draft) =>
          content = (Ago(1).content \o Ago(1).text) \o Ago(0).text

\* two different characters added to an empty draft, in both variants
C15_Witness ==
    /\ RW_Ends(<<"add_text", "add_text">>)
    /\ RW_Ago(1).self = DraftPost(EmptyString)
    /\ RW_Ago(1).text = <<1>>
    /\ RW_Ago(0).text = <<2>>
    /\ rw.content = <<1, 2>>
    /\ Ends(<<"add_text", "add_text">>)
    /\ Ago(1).state = Draft
    /\ Ago(1).content = EmptyString
    /\ content = <<1, 2>>

\* C16: in every state between operations the stored content is the
\* concatenation, in call order, of exactly the add_text arguments issued while
\* the stage was Draft (also a Draft re-entered after a reject); no operation
\* truncates, clears or reorders the content.
C16_ContentIsDraftTexts ==
    /\ content = issued
    /\ HasLast => IsPrefix(Ago(0).content, content)

\* text added in Draft, text offered during review, a reject, more text in Draft
C16_Witness ==
    /\ Ends(<<"request_review", "add_text", "reject", "add_text">>)
    /\ Ago(3).state = Draft
    /\ Ago(3).content = <<1>>
    /\ Ago(2).state = PendingReview(0)
    /\ Ago(2).text = <<1>>
    /\ Ago(0).state = Draft
    /\ Ago(0).text = <<2>>
    /\ content = <<1, 2>>

\* C17: in every reachable state whose stage is PendingReview the approval
\* counter is 0 or 1; it never reaches 2 in PendingReview and the u8 counter
\* never overflows, however many approve() calls are made.
C17_CounterBounded ==
    /\ ~panicked
    /\ InPendingReview(state) =>
          /\ state.approvals \in {0, 1}
          /\ ~PendingReview_overflows(state)

\* four approve() calls in a row, the first at count 0
C17_Witness ==
    /\ Ends(<<"approve", "approve", "approve", "approve">>)
    /\ Ago(3).state = PendingReview(0)
    /\ Ago(2).state = PendingReview(1)
    /\ Ago(1).state = Published
    /\ state = Published
    /\ ~panicked

\* C18: the state handle is present after Post::new() and after every
\* request_review/approve/reject, so the unwrap in add_text and content never
\* fails; every operation is accepted in every stage without panic.
C18_StateAlwaysPresent ==
    /\ state # None
    /\ ~panicked

\* approve() and reject() on a draft, then add_text on a post under review
C18_Witness ==
    /\ Ends(<<"approve", "reject", "request_review", "add_text">>)
    /\ Ago(3).state = Draft
    /\ Ago(2).state = Draft
    /\ Ago(0).state = PendingReview(0)
    /\ Ago(0).text # EmptyString
    /\ state = PendingReview(0)
    /\ ~panicked

====
